---- MODULE Spec2Model ----
(***************************************************************************)
(* A model of the simulation core of bevy-bullet-hell (src/src/lib.rs).    *)
(*                                                                         *)
(* The program is a Bevy 0.12 plugin.  One frame of the application runs   *)
(* the schedules  First, StateTransition, FixedUpdate (zero or more        *)
(* passes), Update  in this order; the very first frame runs Startup       *)
(* before them.  Inside a schedule the systems registered without an       *)
(* ordering run in an order the executor chooses, and the commands a       *)
(* system issues (spawn, despawn) take effect when the schedule ends.      *)
(*                                                                         *)
(* Units: time in milliseconds, lengths in world units (exact, the f32     *)
(* rounding of positions is not modelled), hit points as 32-bit unsigned   *)
(* numbers held in two 16-bit limbs.                                       *)
(***************************************************************************)
EXTENDS Integers, Sequences, FiniteSets, TLC

(***************************************************************************)
(* Program constants                                                       *)
(***************************************************************************)
BULLET_RADIUS == 10
PLAYER_DIMENSIONS == 50
PLAYER_MAX_HP == 100
HIT_FEEDBACK_MS == 50
ENEMY_MAX_HP == 10
ENEMY_DIMENSIONS == 50
SCREEN_X == 600
SCREEN_Y == 800
AUTO_FIRE == FALSE
PLAYER_COLOR == "WHITE"
HIT_COLOR == "RED"
ENEMY_COLOR == "GRAY"
GUN_DAMAGE == 10
PLAYER_COOLDOWN_MS == 250
PLAYER_BULLET_SPEED == 1000
ENEMY_BULLET_SPEED == -500
ENEMY_SPEED == 100
PLAYER_SPEED == 600
BULLET_BOUND == 400
ENEMY_SPAWN_Y == 400
SPAWN_TIMER_MS == 2000
SCORE_STEP == 10
HOVER_MARGIN == 50
PLAYER_START_Y == -350
BULLET_OFFSET == 50
\* The period of the FixedUpdate schedule, 1/64 s, in microseconds.
FIXED_TIMESTEP_US == 15625

(***************************************************************************)
(* Bounds of the model                                                     *)
(***************************************************************************)
\* The frame at which the exploration ends.
MaxFrames == 5

\* Frame deltas (ms) the clock may report after the first frame: a frame at 20
\* frames per second and the longest frame the clock reports.
Deltas == {50, 250}

\* The sets of held keys the input may report in a frame.
KeySets == {{}, {"Space"}, {"Left", "Up", "Space"}}

\* random::<f32>() yields k * 2^-24 for a 24-bit k; the samples explored are
\* the least and the greatest.
RandSamples == {0, 16777215}

\* The five samples spawn_enemies draws (x, gun cooldown, upper and lower hover
\* base, timer duration): every pair of durations, the enemy in the middle.
SpawnDraws == {<<8388608, kc, 8388608, 8388608, kd>> : kc, kd \in RandSamples}

(***************************************************************************)
(* u32 arithmetic on two 16-bit limbs: <<hi, lo>> is hi * 2^16 + lo.       *)
(***************************************************************************)
Limb == 65536

U32(n) == <<n \div Limb, n % Limb>>

U32IsSmall(u) == u[1] = 0

\* u < n for a small n
U32Less(u, n) == u[1] = 0 /\ u[2] < n

\* u <= 0, as the code writes it on an unsigned number
U32LeZero(u) == u[1] = 0 /\ u[2] <= 0

\* saturating subtraction of a small n: what the subtraction is not
U32SaturatingSub(u, n) ==
    IF u[1] = 0 /\ u[2] < n THEN <<0, 0>>
    ELSE IF u[2] >= n THEN <<u[1], u[2] - n>>
    ELSE <<u[1] - 1, u[2] + Limb - n>>

\* wrapping subtraction of a small n (n < 2^16)
U32WrappingSub(u, n) ==
    IF u[2] >= n THEN <<u[1], u[2] - n>>
    ELSE <<(u[1] + Limb - 1) % Limb, u[2] + Limb - n>>

(***************************************************************************)
(* bevy::time::Timer in TimerMode::Once                                    *)
(***************************************************************************)
Timer(d) == [duration |-> d, elapsed |-> 0, finished |-> FALSE, just_finished |-> FALSE]

TimerTick(t, delta) ==
    IF t.finished
    THEN [t EXCEPT !.just_finished = FALSE]
    ELSE IF t.elapsed + delta >= t.duration
         THEN [t EXCEPT !.elapsed = t.duration, !.finished = TRUE, !.just_finished = TRUE]
         ELSE [t EXCEPT !.elapsed = t.elapsed + delta, !.just_finished = FALSE]

TimerReset(t) == [t EXCEPT !.elapsed = 0, !.finished = FALSE, !.just_finished = FALSE]

TimerSetDuration(t, d) == [t EXCEPT !.duration = d]

(***************************************************************************)
(* Randomness: a sample is the 24-bit integer k of the value k * 2^-24.    *)
(***************************************************************************)
\* round k/2 to the nearest integer, ties to even
HalfToEven(k) ==
    IF k % 2 = 0 THEN k \div 2
    ELSE IF ((k - 1) \div 2) % 2 = 0 THEN (k - 1) \div 2 ELSE (k + 1) \div 2

\* Duration::from_secs_f32(1. + random::<f32>()) in ms: the f32 sum 1 + k*2^-24
\* has a 23-bit fraction, HalfToEven(k) * 2^-23.
RandomDuration(k) == 1000 + (((HalfToEven(k) \div 8192) * 1000) \div 1024)

\* random::<f32>() * n, truncated to a whole unit
RandomTimes(k, n) == ((k \div 16384) * n) \div 1024

\* (random::<f32>() * 600. - 300.) * 0.8
RandomX(k) == ((RandomTimes(k, 600) - 300) * 8) \div 10

(***************************************************************************)
(* bevy::sprite::collide_aabb::collide: two boxes given by centre and      *)
(* size overlap (all four comparisons are strict).  Doubled coordinates    *)
(* keep the half sizes whole.                                              *)
(***************************************************************************)
Collide(ax, ay, aw, ah, bx, by, bw, bh) ==
    /\ 2 * ax - aw < 2 * bx + bw
    /\ 2 * ax + aw > 2 * bx - bw
    /\ 2 * ay - ah < 2 * by + bh
    /\ 2 * ay + ah > 2 * by - bh

VARIABLES
    state,              \* State<AppState>
    next_state,         \* NextState<AppState>: "None" or the requested state
    entered,            \* run_enter_schedule has run (it runs once)
    world,              \* the entities: id -> components
    commands,           \* the commands issued in the running schedule, not yet applied
    score,              \* Score
    enemy_spawn_timer,  \* EnemySpawnTimer
    hit_feedback_timer, \* HitFeedbackTimer
    collision_events,   \* Events<CollisionEvent>, the events increase_score has not read
    hit_events,         \* Events<HitEvent>, the events player_hit has not read
    game_over_events,   \* Events<GameOverEvent>, the events game_over has not read
    time_delta,         \* Time::delta of the frame, ms
    overstep,           \* time accumulated for FixedUpdate, microseconds
    fixed_left,         \* FixedUpdate passes left in the frame
    input,              \* the frame's input: held keys, restart control pressed
    pc,                 \* the schedule the frame is in
    ran,                \* the systems of the schedule that have run
    frame,              \* frames completed
    env,                \* the inputs explored: the frame deltas (ms) and the sets of held keys
    wrapped,            \* an unsigned subtraction has wrapped (a build without overflow checks)
    panicked,           \* a system has panicked: the application has stopped
    h                   \* history of the run, read by the properties only

vars == <<state, next_state, entered, world, commands, score, enemy_spawn_timer,
          hit_feedback_timer, collision_events, hit_events, game_over_events,
          time_delta, overstep, fixed_left, input, pc, ran, frame, env, wrapped, panicked, h>>

(***************************************************************************)
(* Entities and commands                                                   *)
(***************************************************************************)
Ids(kind) == {i \in DOMAIN world : world[i].kind = kind}

Players == Ids("Player")
Enemies == Ids("Enemy")
Bullets == Ids("Bullet")

Camera == [kind |-> "Camera"]

\* setup, lines 157-174
NewPlayer ==
    [kind |-> "Player", x |-> 0, y |-> PLAYER_START_Y,
     gun |-> [cooldown_timer |-> Timer(PLAYER_COOLDOWN_MS), damage |-> GUN_DAMAGE],
     hp |-> U32(PLAYER_MAX_HP), hostility |-> "Friendly", color |-> PLAYER_COLOR]

\* setup, lines 176-186
NewScoreText == [kind |-> "ScoreText", text |-> 0]

\* create_bullet
create_bullet(x, y, speed, damage, is_hostile) ==
    [kind |-> "Bullet", x |-> x, y |-> y, velocity |-> speed, damage |-> damage,
     hostility |-> IF is_hostile THEN "Hostile" ELSE "Friendly"]

\* spawn_enemies, lines 310-332
NewEnemy(x, cooldown, upper_base, lower_base) ==
    [kind |-> "Enemy", x |-> x, y |-> ENEMY_SPAWN_Y,
     gun |-> [cooldown_timer |-> Timer(cooldown), damage |-> GUN_DAMAGE],
     hp |-> U32(ENEMY_MAX_HP), hostility |-> "Hostile", direction |-> 0,
     hover |-> [upper_limit_base |-> upper_base, upper_limit_margin |-> HOVER_MARGIN,
                lower_limit_base |-> lower_base, lower_limit_margin |-> HOVER_MARGIN]]

\* game_over, lines 520-529 and 531-567 (the node, its button and the button's
\* label are one entity here)
GameOverText == [kind |-> "GameOverText"]
RestartButton == [kind |-> "Button"]

SpawnCmd(e) == [op |-> "spawn", ent |-> e]
DespawnCmd(i, by) == [op |-> "despawn", id |-> i, kind |-> world[i].kind, by |-> by]

DespawnTargets(cmds) == {cmds[k].id : k \in {j \in 1..Len(cmds) : cmds[j].op = "despawn"}}

\* The smallest id that is neither in use nor named by a pending despawn.
FreshId(w, cmds) ==
    CHOOSE i \in 1..(Cardinality(DOMAIN w) + Cardinality(DespawnTargets(cmds)) + 1) :
        /\ i \notin DOMAIN w
        /\ i \notin DespawnTargets(cmds)
        /\ \A j \in 1..(i - 1) : j \in DOMAIN w \/ j \in DespawnTargets(cmds)

Without(w, i) == [j \in DOMAIN w \ {i} |-> w[j]]
With(w, i, e) == [j \in DOMAIN w \cup {i} |-> IF j = i THEN e ELSE w[j]]

\* The world after the commands, in the order they were issued.  Despawning an
\* entity that is gone changes nothing.
RECURSIVE ApplyCommands(_, _)
ApplyCommands(w, cmds) ==
    IF cmds = <<>> THEN w
    ELSE LET c == Head(cmds) IN
         IF c.op = "despawn"
         THEN ApplyCommands(Without(w, c.id), Tail(cmds))
         ELSE ApplyCommands(With(w, FreshId(w, cmds), c.ent), Tail(cmds))

\* The kinds of entity some command despawns although an earlier command of the
\* queue has despawned it already.
RepeatedDespawns(cmds) ==
    {cmds[k].kind : k \in {j \in 1..Len(cmds) :
        /\ cmds[j].op = "despawn"
        /\ \E i \in 1..(j - 1) : cmds[i].op = "despawn" /\ cmds[i].id = cmds[j].id}}

(***************************************************************************)
(* bevy::ecs::event::Events: an event lives through two updates; a reader  *)
(* yields the events it has not read yet.  Each event type here has one    *)
(* reader, so a queue holds the unread events with their age.              *)
(***************************************************************************)
Send(q, e) == Append(q, [ev |-> e, age |-> 0])

EventsUpdate(q) ==
    LET keep == SelectSeq(q, LAMBDA r : r.age = 0)
    IN [k \in 1..Len(keep) |-> [keep[k] EXCEPT !.age = 1]]

Dropped(q) == Len(SelectSeq(q, LAMBDA r : r.age = 1))

RECURSIVE SetToSeq(_)
SetToSeq(S) ==
    IF S = {} THEN <<>>
    ELSE LET m == CHOOSE i \in S : \A j \in S : i <= j
         IN <<m>> \o SetToSeq(S \ {m})

\* The order in which a query yields the entities of a kind.
IterOrder(kind) == SetToSeq(Ids(kind))

(***************************************************************************)
(* The frame                                                               *)
(***************************************************************************)
NoPass == [ran |-> FALSE]

NoInput == [keys |-> {}, click |-> FALSE]

\* The schedule that follows StateTransition: RunFixedUpdateLoop runs the
\* FixedUpdate schedule once per period accumulated, then comes Update.
AfterTransition == IF fixed_left > 0 THEN "FixedUpdate" ELSE "Update"

\* First: the clock and the input are sampled, the event queues are updated.
\* The first frame of the application reports a delta of zero.  The restart
\* control can only be pressed while it exists.
BeginFrame(delta, keys, click) ==
    /\ pc = "First"
    /\ ~panicked
    /\ frame < MaxFrames
    /\ delta = 0 <=> ~entered
    /\ click => Ids("Button") # {}
    /\ time_delta' = delta
    /\ input' = [keys |-> keys, click |-> click]
    /\ fixed_left' = (overstep + delta * 1000) \div FIXED_TIMESTEP_US
    /\ overstep' = (overstep + delta * 1000) % FIXED_TIMESTEP_US
    /\ collision_events' = EventsUpdate(collision_events)
    /\ hit_events' = EventsUpdate(hit_events)
    /\ game_over_events' = EventsUpdate(game_over_events)
    /\ h' = [h EXCEPT !.last = "First",
                      !.lost = @ \/ Dropped(collision_events) + Dropped(hit_events)
                                    + Dropped(game_over_events) > 0,
                      !.start = world]
    /\ pc' = IF entered THEN "Transition" ELSE "RunEnter"
    /\ ran' = {}
    /\ UNCHANGED <<env, state, next_state, entered, world, commands, score, enemy_spawn_timer,
                   hit_feedback_timer, frame, wrapped, panicked>>

\* restart: the Startup system, and the system of OnEnter(Restarting), which
\* run_enter_schedule runs once for the initial state and apply_state_transition
\* runs on every entry into Restarting.
restart ==
    /\ ~panicked
    /\ pc \in (IF state = "Restarting" THEN {"Startup", "RunEnter", "OnEnter"}
                                       ELSE {"Startup", "RunEnter"})
    /\ next_state' = "Running"
    /\ entered' = IF pc = "RunEnter" THEN TRUE ELSE entered
    /\ pc' = CASE pc = "Startup" -> "First"
               [] pc = "RunEnter" -> "Transition"
               [] pc = "OnEnter" -> AfterTransition
    /\ h' = [h EXCEPT !.last = "restart"]
    /\ UNCHANGED <<env, state, world, commands, score, enemy_spawn_timer, hit_feedback_timer,
                   collision_events, hit_events, game_over_events, time_delta, overstep,
                   fixed_left, input, ran, frame, wrapped, panicked>>

\* apply_state_transition: the requested state is taken; when it differs from
\* the current one, OnExit of the old state and OnEnter of the new one run.
\* OnExit(Restarting) has no systems.
apply_state_transition ==
    /\ ~panicked
    /\ pc = "Transition"
    /\ next_state' = "None"
    /\ state' = IF next_state = "None" THEN state ELSE next_state
    /\ pc' = IF next_state = "None" \/ next_state = state THEN AfterTransition
             ELSE IF state = "Running" THEN "OnExit" ELSE "OnEnter"
    /\ h' = [h EXCEPT !.last = "apply_state_transition"]
    /\ UNCHANGED <<env, entered, world, commands, score, enemy_spawn_timer, hit_feedback_timer,
                   collision_events, hit_events, game_over_events, time_delta, overstep,
                   fixed_left, input, ran, frame, wrapped, panicked>>

\* The commands teardown issues: one despawn per entity.
TeardownCommands ==
    LET all == SetToSeq(DOMAIN world)
    IN [k \in 1..Len(all) |-> DespawnCmd(all[k], "teardown")]

\* teardown, the system of OnExit(Running); its commands are applied as the
\* schedule ends.  The score is reset in the loop over the entities.
teardown ==
    /\ ~panicked
    /\ pc = "OnExit"
    /\ world' = ApplyCommands(world, TeardownCommands)
    /\ score' = IF DOMAIN world = {} THEN score ELSE 0
    /\ pc' = "OnEnter"
    /\ h' = [h EXCEPT !.last = "teardown", !.torn = TRUE, !.collisions = 0,
                      !.handled = FALSE, !.teardowns = @ + 1, !.setups = 0,
                      !.fresh = {}]
    /\ UNCHANGED <<env, state, next_state, entered, commands, enemy_spawn_timer,
                   hit_feedback_timer, collision_events, hit_events, game_over_events,
                   time_delta, overstep, fixed_left, input, ran, frame, wrapped, panicked>>

\* The commands setup issues.
SetupCommands == <<SpawnCmd(Camera), SpawnCmd(NewPlayer), SpawnCmd(NewScoreText)>>

\* setup, the system of OnEnter(Running)
setup ==
    /\ ~panicked
    /\ pc = "OnEnter"
    /\ state = "Running"
    /\ world' = ApplyCommands(world, SetupCommands)
    /\ pc' = AfterTransition
    /\ h' = [h EXCEPT !.last = "setup", !.handled = FALSE, !.setups = @ + 1,
                      !.teardowns = 0, !.since = 0]
    /\ UNCHANGED <<env, state, next_state, entered, commands, score, enemy_spawn_timer,
                   hit_feedback_timer, collision_events, hit_events, game_over_events,
                   time_delta, overstep, fixed_left, input, ran, frame, wrapped, panicked>>

(***************************************************************************)
(* FixedUpdate: collision detection                                        *)
(***************************************************************************)
\* collide(bullet, (BULLET_RADIUS, BULLET_RADIUS), target, 50 x 50)
BulletOverlaps(b, t, size) ==
    Collide(world[b].x, world[b].y, BULLET_RADIUS, BULLET_RADIUS,
            world[t].x, world[t].y, size, size)

\* "No enemy friendly fire": the bullets check_for_collisions leaves alone.
SkippedByEnemies(hostility) == hostility = "Hostile"

\* check_for_collisions_player without the test of lines 436-438.
SkipsNoBullet(hostility) == FALSE

\* "No friendly fire": the bullets check_for_collisions_player leaves alone.
SkippedByPlayer(hostility) == hostility = "Friendly"

\* Lines 415-420: the event, the bullet's despawn, the subtraction on the
\* enemy's hit points and the enemy's despawn at zero.  acc carries the world
\* (w), the event queue (ev), the commands (cmds), the resolutions (hits) and
\* whether the subtraction overflowed: with overflow checks it panics, without
\* them it wraps.
ResolveEnemyHit(acc, b, e, checks) ==
    LET before == acc.w[e].hp
        dmg == world[b].damage
        under == U32Less(before, dmg)
        after == U32WrappingSub(before, dmg)
        sent == [acc EXCEPT !.ev = Send(@, "Collision"),
                            !.cmds = Append(@, DespawnCmd(b, "check_for_collisions"))]
    IN IF under /\ checks
       THEN [sent EXCEPT !.panic = TRUE]
       ELSE [sent EXCEPT
               !.w = [@ EXCEPT ![e].hp = after],
               !.wrap = @ \/ under,
               !.cmds = IF U32LeZero(after)
                        THEN Append(@, DespawnCmd(e, "check_for_collisions"))
                        ELSE @,
               !.hits = Append(@, [bullet |-> b, enemy |-> e, before |-> before,
                                   damage |-> dmg, after |-> after])]

\* The inner loop without the break of line 421: after a hit the bullet goes on
\* to the enemies that follow.
RECURSIVE ScanEnemiesNoBreak(_, _, _, _)
ScanEnemiesNoBreak(acc, b, es, checks) ==
    IF es = <<>> \/ acc.panic THEN acc
    ELSE IF SkippedByEnemies(world[b].hostility) THEN acc
    ELSE IF BulletOverlaps(b, Head(es), ENEMY_DIMENSIONS)
         THEN ScanEnemiesNoBreak(ResolveEnemyHit(acc, b, Head(es), checks), b, Tail(es), checks)
         ELSE ScanEnemiesNoBreak(acc, b, Tail(es), checks)

\* The inner loop of check_for_collisions (lines 398-423) over the enemies es
\* still to visit for bullet b.
RECURSIVE ScanEnemies(_, _, _, _)
ScanEnemies(acc, b, es, checks) ==
    IF es = <<>> \/ acc.panic THEN acc
    ELSE IF SkippedByEnemies(world[b].hostility) THEN acc
    ELSE IF BulletOverlaps(b, Head(es), ENEMY_DIMENSIONS)
         THEN ResolveEnemyHit(acc, b, Head(es), checks)
         ELSE ScanEnemies(acc, b, Tail(es), checks)

\* The outer loop as it would be if the break of line 401 left it: the pass
\* ends at the first Hostile bullet.
RECURSIVE ScanBulletsStopAtHostile(_, _, _)
ScanBulletsStopAtHostile(acc, bs, checks) ==
    IF bs = <<>> \/ acc.panic THEN acc
    ELSE IF SkippedByEnemies(world[Head(bs)].hostility) THEN acc
    ELSE ScanBulletsStopAtHostile(ScanEnemies(acc, Head(bs), IterOrder("Enemy"), checks),
                                  Tail(bs), checks)

\* The outer loop of check_for_collisions (line 397) over the bullets bs.
RECURSIVE ScanBullets(_, _, _)
ScanBullets(acc, bs, checks) ==
    IF bs = <<>> \/ acc.panic THEN acc
    ELSE ScanBullets(ScanEnemies(acc, Head(bs), IterOrder("Enemy"), checks),
                     Tail(bs), checks)

\* The Friendly bullets that overlap an enemy: the bullet-enemy collisions of a pass.
CollidingBullets ==
    {b \in Bullets : /\ world[b].hostility = "Friendly"
                     /\ \E e \in Enemies : BulletOverlaps(b, e, ENEMY_DIMENSIONS)}

\* The builds: with overflow checks an overflowing subtraction panics, without
\* them it wraps.  A run in which a subtraction has wrapped is of the second.
OverflowChecks == IF wrapped THEN {FALSE} ELSE BOOLEAN

check_for_collisions(checks) ==
    /\ ~panicked
    /\ pc = "FixedUpdate"
    /\ "check_for_collisions" \notin ran
    /\ LET r == ScanBullets([w |-> world, ev |-> collision_events, cmds |-> commands,
                             hits |-> <<>>, panic |-> FALSE, wrap |-> wrapped],
                            IterOrder("Bullet"), checks)
       IN /\ world' = r.w
          /\ collision_events' = r.ev
          /\ commands' = r.cmds
          /\ wrapped' = r.wrap
          /\ panicked' = r.panic
          /\ h' = [h EXCEPT !.collisions = @ + Cardinality(CollidingBullets),
                            !.cfc = IF r.panic THEN @
                                    ELSE [ran |-> TRUE, base |-> Len(collision_events),
                                          hits |-> r.hits]]
    /\ ran' = ran \cup {"check_for_collisions"}
    /\ UNCHANGED <<env, state, next_state, entered, score, enemy_spawn_timer, hit_feedback_timer,
                   hit_events, game_over_events, time_delta, overstep, fixed_left, input,
                   pc, frame>>

\* The inner loop of check_for_collisions_player (lines 434-451) over the
\* players ps still to visit for bullet b: no break after a hit.
RECURSIVE ScanPlayers(_, _, _)
ScanPlayers(acc, b, ps) ==
    IF ps = <<>> THEN acc
    ELSE IF SkippedByPlayer(world[b].hostility) THEN acc
    ELSE IF BulletOverlaps(b, Head(ps), PLAYER_DIMENSIONS)
         THEN ScanPlayers([acc EXCEPT
                 !.cmds = Append(@, DespawnCmd(b, "check_for_collisions_player")),
                 !.ev = Send(@, [damage |-> world[b].damage]),
                 !.hits = Append(@, [bullet |-> b, player |-> Head(ps),
                                     damage |-> world[b].damage])],
              b, Tail(ps))
         ELSE ScanPlayers(acc, b, Tail(ps))

\* The outer loop of check_for_collisions_player (line 433).
RECURSIVE ScanBulletsPlayer(_, _)
ScanBulletsPlayer(acc, bs) ==
    IF bs = <<>> THEN acc
    ELSE ScanBulletsPlayer(ScanPlayers(acc, Head(bs), IterOrder("Player")), Tail(bs))

check_for_collisions_player ==
    /\ ~panicked
    /\ pc = "FixedUpdate"
    /\ "check_for_collisions_player" \notin ran
    /\ LET r == ScanBulletsPlayer([ev |-> hit_events, cmds |-> commands, hits |-> <<>>],
                                  IterOrder("Bullet"))
       IN /\ hit_events' = r.ev
          /\ commands' = r.cmds
          /\ h' = [h EXCEPT !.cfcp = [ran |-> TRUE, base |-> Len(hit_events),
                                      hits |-> r.hits]]
    /\ ran' = ran \cup {"check_for_collisions_player"}
    /\ UNCHANGED <<env, state, next_state, entered, world, score, enemy_spawn_timer,
                   hit_feedback_timer, collision_events, game_over_events, time_delta,
                   overstep, fixed_left, input, pc, frame, wrapped, panicked>>

FixedSystems == {"check_for_collisions", "check_for_collisions_player"}

\* The end of a FixedUpdate pass: the commands of its systems are applied.
FixedUpdateEnd ==
    /\ ~panicked
    /\ pc = "FixedUpdate"
    /\ ran = FixedSystems
    /\ world' = ApplyCommands(world, commands)
    /\ commands' = <<>>
    /\ fixed_left' = fixed_left - 1
    /\ pc' = IF fixed_left > 1 THEN "FixedUpdate" ELSE "Update"
    /\ ran' = {}
    /\ h' = [h EXCEPT !.last = "FixedUpdateEnd", !.cfc = NoPass, !.cfcp = NoPass,
                      !.repeated = @ \cup RepeatedDespawns(commands)]
    /\ UNCHANGED <<env, state, next_state, entered, score, enemy_spawn_timer, hit_feedback_timer,
                   collision_events, hit_events, game_over_events, time_delta, overstep,
                   input, frame, wrapped, panicked>>

(***************************************************************************)
(* Update                                                                  *)
(*                                                                         *)
(* The Update systems are registered without an ordering.  Systems that    *)
(* share no data commute, so the model runs the groups below one after the *)
(* other and the systems of a group in every order: a group holds the      *)
(* systems that read or write the same components, resources or events.    *)
(***************************************************************************)
Group ==
    [move_player |-> 1, shoot |-> 1, limit_player_bounds |-> 1,
     move_bullets |-> 2, remove_out_of_bounds_bullets |-> 2,
     spawn_enemies |-> 3,
     set_enemies_direction |-> 4, apply_enemy_velocity |-> 4, enemy_shots |-> 4,
     increase_score |-> 5,
     player_hit |-> 6, player_hit_feedback |-> 6, game_over |-> 6,
     restart_button |-> 7]

UpdateSystems == DOMAIN Group

\* System sys may run now: it has not run in this frame and the groups before
\* its own have.
Turn(sys) ==
    /\ ~panicked
    /\ pc = "Update"
    /\ sys \notin ran
    /\ \A t \in UpdateSystems : Group[t] < Group[sys] => t \in ran

Pressed(k) == k \in input.keys

\* The distance covered in delta ms at speed units per second.
Travel(speed, delta) == (speed * delta) \div 1000

\* A component of direction.normalize() * delta_seconds * SPEED for a diagonal
\* direction: Travel / sqrt(2), truncated.
DiagonalTravel(speed, delta) == (Travel(speed, delta) * 7071) \div 10000

\* move_player, lines 197-214, for one player
MovedPlayer(p) ==
    LET dx == (IF Pressed("Right") \/ Pressed("D") THEN 1 ELSE 0)
              - (IF Pressed("Left") \/ Pressed("A") THEN 1 ELSE 0)
        dy == (IF Pressed("Up") \/ Pressed("W") THEN 1 ELSE 0)
              - (IF Pressed("Down") \/ Pressed("S") THEN 1 ELSE 0)
        step == IF dx # 0 /\ dy # 0 THEN DiagonalTravel(PLAYER_SPEED, time_delta)
                ELSE Travel(PLAYER_SPEED, time_delta)
    IN [p EXCEPT !.x = @ + dx * step, !.y = @ + dy * step]

move_player ==
    /\ Turn("move_player")
    /\ world' = [i \in DOMAIN world |->
                    IF world[i].kind = "Player" THEN MovedPlayer(world[i]) ELSE world[i]]
    /\ ran' = ran \cup {"move_player"}
    /\ UNCHANGED <<env, state, next_state, entered, commands, score, enemy_spawn_timer,
                   hit_feedback_timer, collision_events, hit_events, game_over_events,
                   time_delta, overstep, fixed_left, input, pc, frame, wrapped, panicked, h>>

\* shoot without the test of line 227: the gun fires whenever the key is held.
PlayerFiresWhenPressed(p) == Pressed("Space") \/ AUTO_FIRE

\* shoot, line 227 and lines 228-238: the player's bullet, when one is fired
PlayerFires(p) ==
    /\ TimerTick(p.gun.cooldown_timer, time_delta).finished
    /\ Pressed("Space") \/ AUTO_FIRE

PlayerBullet(p) ==
    create_bullet(p.x, p.y + BULLET_OFFSET, PLAYER_BULLET_SPEED, p.gun.damage, FALSE)

\* shoot, for one player: the gun after the tick and the reset
ShotGun(p) ==
    LET ticked == TimerTick(p.gun.cooldown_timer, time_delta)
    IN [p EXCEPT !.gun.cooldown_timer = IF PlayerFires(p) THEN TimerReset(ticked) ELSE ticked]

shoot ==
    /\ Turn("shoot")
    /\ LET ps == IterOrder("Player")
           firing == SelectSeq(ps, LAMBDA i : PlayerFires(world[i]))
       IN /\ commands' = commands \o [k \in 1..Len(firing) |->
                                         SpawnCmd(PlayerBullet(world[firing[k]]))]
    /\ world' = [i \in DOMAIN world |->
                    IF world[i].kind = "Player" THEN ShotGun(world[i]) ELSE world[i]]
    /\ ran' = ran \cup {"shoot"}
    /\ h' = [h EXCEPT
               !.shoot = [ran |-> TRUE, at |-> [i \in Players |-> world[i]], since |-> h.since],
               !.since = IF Players = {} THEN @
                         ELSE IF \E i \in Players : PlayerFires(world[i]) THEN 0
                         ELSE IF @ + time_delta >= PLAYER_COOLDOWN_MS THEN PLAYER_COOLDOWN_MS
                         ELSE @ + time_delta]
    /\ UNCHANGED <<env, state, next_state, entered, score, enemy_spawn_timer,
                   hit_feedback_timer, collision_events, hit_events, game_over_events,
                   time_delta, overstep, fixed_left, input, pc, frame, wrapped, panicked>>

\* limit_player_bounds, lines 602-612, for one player
Clamp(v, limit) == IF v > limit THEN limit ELSE IF v < -limit THEN -limit ELSE v

LimitedPlayer(p) ==
    [p EXCEPT !.x = Clamp(@, SCREEN_X \div 2 - PLAYER_DIMENSIONS \div 2),
              !.y = Clamp(@, SCREEN_Y \div 2 - PLAYER_DIMENSIONS \div 2)]

limit_player_bounds ==
    /\ Turn("limit_player_bounds")
    /\ world' = [i \in DOMAIN world |->
                    IF world[i].kind = "Player" THEN LimitedPlayer(world[i]) ELSE world[i]]
    /\ ran' = ran \cup {"limit_player_bounds"}
    /\ UNCHANGED <<env, state, next_state, entered, commands, score, enemy_spawn_timer,
                   hit_feedback_timer, collision_events, hit_events, game_over_events,
                   time_delta, overstep, fixed_left, input, pc, frame, wrapped, panicked, h>>

\* move_bullets with the delta taken in whole seconds.
MovedBulletWholeSeconds(b) == [b EXCEPT !.y = @ + b.velocity * (time_delta \div 1000)]

\* move_bullets, line 277, for one bullet
MovedBullet(b) == [b EXCEPT !.y = @ + Travel(b.velocity, time_delta)]

move_bullets ==
    /\ Turn("move_bullets")
    /\ world' = [i \in DOMAIN world |->
                    IF world[i].kind = "Bullet" THEN MovedBullet(world[i]) ELSE world[i]]
    /\ ran' = ran \cup {"move_bullets"}
    /\ h' = [h EXCEPT !.fresh = {}]
    /\ UNCHANGED <<env, state, next_state, entered, commands, score, enemy_spawn_timer,
                   hit_feedback_timer, collision_events, hit_events, game_over_events,
                   time_delta, overstep, fixed_left, input, pc, frame, wrapped, panicked>>

\* The test of line 286 without its lower bound.
OutOfBoundsAbove(b) == b.y > BULLET_BOUND

\* remove_out_of_bounds_bullets, line 286
OutOfBounds(b) == b.y > BULLET_BOUND \/ b.y < -BULLET_BOUND

remove_out_of_bounds_bullets ==
    /\ Turn("remove_out_of_bounds_bullets")
    /\ LET out == SelectSeq(IterOrder("Bullet"), LAMBDA i : OutOfBounds(world[i]))
       IN commands' = commands \o [k \in 1..Len(out) |->
                                      DespawnCmd(out[k], "remove_out_of_bounds_bullets")]
    /\ ran' = ran \cup {"remove_out_of_bounds_bullets"}
    /\ h' = [h EXCEPT !.seen = [i \in Bullets |-> world[i].y]]
    /\ UNCHANGED <<env, state, next_state, entered, world, score, enemy_spawn_timer,
                   hit_feedback_timer, collision_events, hit_events, game_over_events,
                   time_delta, overstep, fixed_left, input, pc, frame, wrapped, panicked>>

\* spawn_enemies, lines 304-332: the enemy spawned from four samples
SpawnedEnemy(kx, kc, ku, kl) ==
    NewEnemy(RandomX(kx), RandomDuration(kc),
             300 + RandomTimes(ku, 100), 200 - RandomTimes(kl, 100))

\* spawn_enemies, lines 333-336: the timer re-armed from a sample
Rearmed(t, k) == TimerReset(TimerSetDuration(t, RandomDuration(k)))

spawn_enemies(kx, kc, ku, kl, kd) ==
    /\ Turn("spawn_enemies")
    /\ LET ticked == TimerTick(enemy_spawn_timer, time_delta)
       IN IF ticked.just_finished
          THEN /\ commands' = Append(commands, SpawnCmd(SpawnedEnemy(kx, kc, ku, kl)))
               /\ enemy_spawn_timer' = Rearmed(ticked, kd)
               /\ h' = [h EXCEPT !.spawn = [ran |-> TRUE,
                                            armed |-> enemy_spawn_timer.duration,
                                            ticked |-> enemy_spawn_timer.elapsed + time_delta,
                                            again |-> h.rearmed],
                                 !.rearmed = TRUE]
          ELSE /\ commands' = commands
               /\ enemy_spawn_timer' = ticked
               /\ h' = h
    /\ ran' = ran \cup {"spawn_enemies"}
    /\ UNCHANGED <<env, state, next_state, entered, world, score, hit_feedback_timer,
                   collision_events, hit_events, game_over_events, time_delta, overstep,
                   fixed_left, input, pc, frame, wrapped, panicked>>

\* set_enemies_direction, lines 344-354, for one enemy and its two samples
\* set_enemies_direction with a third branch that stops an enemy inside its band.
DirectedOrStopped(e, k1, k2) ==
    IF e.y < e.hover.lower_limit_base - RandomTimes(k1, e.hover.lower_limit_margin)
    THEN [e EXCEPT !.direction = 1]
    ELSE IF e.y > e.hover.upper_limit_base + RandomTimes(k2, e.hover.upper_limit_margin)
         THEN [e EXCEPT !.direction = -1]
         ELSE [e EXCEPT !.direction = 0]

\* set_enemies_direction, lines 344-354, for one enemy and its two samples
Directed(e, k1, k2) ==
    IF e.y < e.hover.lower_limit_base - RandomTimes(k1, e.hover.lower_limit_margin)
    THEN [e EXCEPT !.direction = 1]
    ELSE IF e.y > e.hover.upper_limit_base + RandomTimes(k2, e.hover.upper_limit_margin)
         THEN [e EXCEPT !.direction = -1]
         ELSE e

set_enemies_direction(ks) ==
    /\ Turn("set_enemies_direction")
    /\ world' = [i \in DOMAIN world |->
                    IF world[i].kind = "Enemy"
                    THEN Directed(world[i], ks[i][1], ks[i][2]) ELSE world[i]]
    /\ ran' = ran \cup {"set_enemies_direction"}
    /\ UNCHANGED <<env, state, next_state, entered, commands, score, enemy_spawn_timer,
                   hit_feedback_timer, collision_events, hit_events, game_over_events,
                   time_delta, overstep, fixed_left, input, pc, frame, wrapped, panicked, h>>

\* apply_enemy_velocity, line 363, for one enemy
MovedEnemy(e) == [e EXCEPT !.y = @ + e.direction * Travel(ENEMY_SPEED, time_delta)]

apply_enemy_velocity ==
    /\ Turn("apply_enemy_velocity")
    /\ world' = [i \in DOMAIN world |->
                    IF world[i].kind = "Enemy" THEN MovedEnemy(world[i]) ELSE world[i]]
    /\ ran' = ran \cup {"apply_enemy_velocity"}
    /\ UNCHANGED <<env, state, next_state, entered, commands, score, enemy_spawn_timer,
                   hit_feedback_timer, collision_events, hit_events, game_over_events,
                   time_delta, overstep, fixed_left, input, pc, frame, wrapped, panicked, h>>

\* enemy_shots, line 375 and lines 376-386
EnemyFires(e) == TimerTick(e.gun.cooldown_timer, time_delta).just_finished

EnemyBullet(e) ==
    create_bullet(e.x, e.y - BULLET_OFFSET, ENEMY_BULLET_SPEED, e.gun.damage, TRUE)

\* enemy_shots, for one enemy and its sample: the gun after the tick and the re-arm
EnemyGun(e, k) ==
    LET ticked == TimerTick(e.gun.cooldown_timer, time_delta)
    IN [e EXCEPT !.gun.cooldown_timer = IF EnemyFires(e) THEN Rearmed(ticked, k) ELSE ticked]

enemy_shots(ks) ==
    /\ Turn("enemy_shots")
    /\ LET firing == SelectSeq(IterOrder("Enemy"), LAMBDA i : EnemyFires(world[i]))
       IN commands' = commands \o [k \in 1..Len(firing) |->
                                      SpawnCmd(EnemyBullet(world[firing[k]]))]
    /\ world' = [i \in DOMAIN world |->
                    IF world[i].kind = "Enemy" THEN EnemyGun(world[i], ks[i]) ELSE world[i]]
    /\ ran' = ran \cup {"enemy_shots"}
    /\ h' = [h EXCEPT !.shots = [ran |-> TRUE, at |-> [i \in Enemies |-> world[i]]]]
    /\ UNCHANGED <<env, state, next_state, entered, score, enemy_spawn_timer,
                   hit_feedback_timer, collision_events, hit_events, game_over_events,
                   time_delta, overstep, fixed_left, input, pc, frame, wrapped, panicked>>

\* increase_score adding SCORE_STEP once per run instead of once per event.
ScoreAfterOnce(sc, events) == IF events = <<>> THEN sc ELSE sc + SCORE_STEP

\* increase_score, lines 498-503: every unread CollisionEvent adds SCORE_STEP
\* and the score texts show the new score.
ScoreAfter(sc, events) == sc + SCORE_STEP * Len(events)

increase_score ==
    /\ Turn("increase_score")
    /\ score' = ScoreAfter(score, collision_events)
    /\ collision_events' = <<>>
    /\ world' = [i \in DOMAIN world |->
                    IF world[i].kind = "ScoreText" /\ collision_events # <<>>
                    THEN [world[i] EXCEPT !.text = ScoreAfter(score, collision_events)]
                    ELSE world[i]]
    /\ ran' = ran \cup {"increase_score"}
    /\ UNCHANGED <<env, state, next_state, entered, commands, enemy_spawn_timer,
                   hit_feedback_timer, game_over_events, hit_events, time_delta, overstep,
                   fixed_left, input, pc, frame, wrapped, panicked, h>>

\* player_hit, lines 478-488, for one event and one player.  acc carries the
\* world (w), the GameOverEvent queue (go), HitFeedbackTimer (timer), the HitEvents
\* not read yet (rest), the subtractions done (applied) and whether one overflowed.
\* player_hit without the reset of line 488.
HitPlayerNoReset(acc, p, dmg, checks) ==
    LET before == acc.w[p].hp
        under == U32Less(before, dmg)
        after == U32WrappingSub(before, dmg)
    IN IF under /\ checks
       THEN [acc EXCEPT !.panic = TRUE]
       ELSE [acc EXCEPT
               !.w = [@ EXCEPT ![p] = [@ EXCEPT !.hp = after, !.color = HIT_COLOR]],
               !.go = IF U32LeZero(after) THEN Send(@, "GameOver") ELSE @,
               !.timer = TimerSetDuration(@, HIT_FEEDBACK_MS),
               !.wrap = @ \/ under,
               !.applied = Append(@, [before |-> before, damage |-> dmg, after |-> after])]

HitPlayer(acc, p, dmg, checks) ==
    LET before == acc.w[p].hp
        under == U32Less(before, dmg)
        after == U32WrappingSub(before, dmg)
    IN IF under /\ checks
       THEN [acc EXCEPT !.panic = TRUE]
       ELSE [acc EXCEPT
               !.w = [@ EXCEPT ![p] = [@ EXCEPT !.hp = after, !.color = HIT_COLOR]],
               !.go = IF U32LeZero(after) THEN Send(@, "GameOver") ELSE @,
               !.timer = TimerReset(TimerSetDuration(@, HIT_FEEDBACK_MS)),
               !.wrap = @ \/ under,
               !.applied = Append(@, [before |-> before, damage |-> dmg, after |-> after])]

\* The inner loop of player_hit (line 477) over the players ps.
RECURSIVE HitPlayers(_, _, _, _)
HitPlayers(acc, ps, dmg, checks) ==
    IF ps = <<>> \/ acc.panic THEN acc
    ELSE HitPlayers(HitPlayer(acc, Head(ps), dmg, checks), Tail(ps), dmg, checks)

\* The outer loop of player_hit (line 476) over the unread HitEvents.
RECURSIVE ReadHitEvents(_, _)
ReadHitEvents(acc, checks) ==
    IF acc.rest = <<>> \/ acc.panic THEN acc
    ELSE ReadHitEvents(HitPlayers([acc EXCEPT !.rest = Tail(@)], IterOrder("Player"),
                                  Head(acc.rest).ev.damage, checks),
                       checks)

player_hit(checks) ==
    /\ Turn("player_hit")
    /\ LET r == ReadHitEvents([w |-> world, go |-> game_over_events,
                               timer |-> hit_feedback_timer, rest |-> hit_events,
                               applied |-> <<>>, panic |-> FALSE, wrap |-> wrapped],
                              checks)
       IN /\ world' = r.w
          /\ game_over_events' = r.go
          /\ hit_feedback_timer' = r.timer
          /\ hit_events' = r.rest
          /\ wrapped' = r.wrap
          /\ panicked' = r.panic
          /\ h' = [h EXCEPT !.hit = [ran |-> TRUE, read |-> hit_events, applied |-> r.applied,
                                      timer |-> r.timer,
                                      sent |-> Len(r.go) - Len(game_over_events),
                                      colors |-> {r.w[p].color : p \in Players}],
                            !.flash = IF r.applied = <<>> THEN @ ELSE 0]
    /\ ran' = ran \cup {"player_hit"}
    /\ UNCHANGED <<env, state, next_state, entered, commands, score, enemy_spawn_timer,
                   collision_events, time_delta, overstep, fixed_left, input, pc, frame>>

\* player_hit_feedback, lines 461-466
player_hit_feedback ==
    /\ Turn("player_hit_feedback")
    /\ hit_feedback_timer' = TimerTick(hit_feedback_timer, time_delta)
    /\ world' = [i \in DOMAIN world |->
                    IF world[i].kind = "Player" /\ hit_feedback_timer'.just_finished
                    THEN [world[i] EXCEPT !.color = PLAYER_COLOR] ELSE world[i]]
    /\ ran' = ran \cup {"player_hit_feedback"}
    /\ h' = [h EXCEPT !.flash = IF @ + time_delta >= HIT_FEEDBACK_MS THEN HIT_FEEDBACK_MS
                                ELSE @ + time_delta]
    /\ UNCHANGED <<env, state, next_state, entered, commands, score, enemy_spawn_timer,
                   collision_events, hit_events, game_over_events, time_delta, overstep,
                   fixed_left, input, pc, frame, wrapped, panicked>>

\* game_over without the despawn of the player (line 516).
GameOverStepKeepsPlayer(p, s) ==
    <<DespawnCmd(s, "game_over"), SpawnCmd(GameOverText), SpawnCmd(RestartButton)>>

\* game_over, lines 515-567: the commands of one (event, player, score text)
GameOverStep(p, s) ==
    <<DespawnCmd(p, "game_over"), DespawnCmd(s, "game_over"),
      SpawnCmd(GameOverText), SpawnCmd(RestartButton)>>

\* The loop over the score texts ss (line 514) for player p.
RECURSIVE GameOverScoreTexts(_, _)
GameOverScoreTexts(p, ss) ==
    IF ss = <<>> THEN <<>>
    ELSE GameOverStep(p, Head(ss)) \o GameOverScoreTexts(p, Tail(ss))

\* The loop over the players ps (line 513).
RECURSIVE GameOverPlayers(_)
GameOverPlayers(ps) ==
    IF ps = <<>> THEN <<>>
    ELSE GameOverScoreTexts(Head(ps), IterOrder("ScoreText")) \o GameOverPlayers(Tail(ps))

\* The loop over the unread GameOverEvents (line 512).
RECURSIVE GameOverCommands(_)
GameOverCommands(events) ==
    IF events = <<>> THEN <<>>
    ELSE GameOverPlayers(IterOrder("Player")) \o GameOverCommands(Tail(events))

game_over ==
    /\ Turn("game_over")
    /\ commands' = commands \o GameOverCommands(game_over_events)
    /\ game_over_events' = <<>>
    /\ ran' = ran \cup {"game_over"}
    /\ h' = [h EXCEPT !.handled = @ \/ game_over_events # <<>>]
    /\ UNCHANGED <<env, state, next_state, entered, world, score, enemy_spawn_timer,
                   hit_feedback_timer, collision_events, hit_events, time_delta, overstep,
                   fixed_left, input, pc, frame, wrapped, panicked>>

\* restart_button without the match on Interaction::Pressed: any change of the
\* button's Interaction requests Restarting.
restart_button_any_interaction ==
    /\ Turn("restart_button")
    /\ next_state' = IF Ids("Button") # {} THEN "Restarting" ELSE next_state
    /\ ran' = ran \cup {"restart_button"}
    /\ UNCHANGED <<env, state, entered, world, commands, score, enemy_spawn_timer,
                   hit_feedback_timer, collision_events, hit_events, game_over_events,
                   time_delta, overstep, fixed_left, input, pc, frame, wrapped, panicked, h>>

\* restart_button, lines 577-582: a button whose Interaction has changed to
\* Pressed in this frame requests Restarting.
restart_button ==
    /\ Turn("restart_button")
    /\ next_state' = IF input.click /\ Ids("Button") # {} THEN "Restarting" ELSE next_state
    /\ ran' = ran \cup {"restart_button"}
    /\ UNCHANGED <<env, state, entered, world, commands, score, enemy_spawn_timer,
                   hit_feedback_timer, collision_events, hit_events, game_over_events,
                   time_delta, overstep, fixed_left, input, pc, frame, wrapped, panicked, h>>

\* The end of Update: the commands of its systems are applied; the frame ends.
UpdateEnd ==
    /\ ~panicked
    /\ pc = "Update"
    /\ ran = UpdateSystems
    /\ world' = ApplyCommands(world, commands)
    /\ commands' = <<>>
    /\ pc' = "First"
    /\ ran' = {}
    /\ frame' = frame + 1
    /\ h' = [h EXCEPT !.last = "UpdateEnd", !.start = <<>>, !.seen = <<>>,
                      !.spawn = NoPass, !.hit = NoPass, !.shoot = NoPass, !.shots = NoPass,
                      !.repeated = @ \cup RepeatedDespawns(commands),
                      !.fresh = (@ \cap DOMAIN world') \cup
                                {i \in DOMAIN world' \ DOMAIN world :
                                    world'[i].kind = "Bullet"}]
    /\ UNCHANGED <<env, state, next_state, entered, score, enemy_spawn_timer, hit_feedback_timer,
                   collision_events, hit_events, game_over_events, time_delta, overstep,
                   fixed_left, input, wrapped, panicked>>

(***************************************************************************)
(* The specification                                                       *)
(***************************************************************************)
NoHistory ==
    [last |-> "build", lost |-> FALSE, start |-> <<>>, torn |-> FALSE, collisions |-> 0,
     handled |-> FALSE, cfc |-> NoPass, cfcp |-> NoPass, repeated |-> {}, seen |-> <<>>,
     spawn |-> NoPass, hit |-> NoPass, rearmed |-> FALSE, setups |-> 0, teardowns |-> 0,
     fresh |-> {}, shoot |-> NoPass, since |-> 0, shots |-> NoPass,
     flash |-> HIT_FEEDBACK_MS]

\* The application as GamePlugin::build leaves it, before the first frame.
Built ==
    /\ state = "Restarting"
    /\ next_state = "None"
    /\ entered = FALSE
    /\ world = <<>>
    /\ commands = <<>>
    /\ score = 0
    /\ enemy_spawn_timer = Timer(SPAWN_TIMER_MS)
    /\ hit_feedback_timer = Timer(0)
    /\ collision_events = <<>>
    /\ hit_events = <<>>
    /\ game_over_events = <<>>
    /\ time_delta = 0
    /\ overstep = 0
    /\ fixed_left = 0
    /\ input = NoInput
    /\ pc = "Startup"
    /\ ran = {}
    /\ wrapped = FALSE
    /\ panicked = FALSE
    /\ h = NoHistory

(***************************************************************************)
(* States of a game in progress.  The game reaches them after many frames; *)
(* the model starts from them as well as from Built, so that the frames it *)
(* explores are those in which something is decided.  Each is a state at   *)
(* the start of a frame in the Running state: no command is pending and    *)
(* every event has been read.  from is the frame the exploration starts    *)
(* at; it ends at frame MaxFrames.                                         *)
(***************************************************************************)
\* A timer that has counted elapsed of its duration d.
Running(d, elapsed) == [Timer(d) EXCEPT !.elapsed = elapsed]

\* A timer that has finished in an earlier frame.
Finished(d) == [Timer(d) EXCEPT !.elapsed = d, !.finished = TRUE]

PlayerAt(x, y, hp, cooldown) ==
    [NewPlayer EXCEPT !.x = x, !.y = y, !.hp = U32(hp), !.gun.cooldown_timer = cooldown]

EnemyAt(x, y, direction, upper_base, cooldown) ==
    [NewEnemy(x, cooldown.duration, upper_base, 150) EXCEPT
        !.y = y, !.direction = direction, !.gun.cooldown_timer = cooldown]

FriendlyBullet(x, y) == create_bullet(x, y, PLAYER_BULLET_SPEED, GUN_DAMAGE, FALSE)
HostileBullet(x, y) == create_bullet(x, y, ENEMY_BULLET_SPEED, GUN_DAMAGE, TRUE)

\* One long frame at the top of the play area.  The player has fired, moved up
\* and been clamped back into its own bullet; an enemy on its way down right
\* above it has fired and moved into its own bullet, which is on the player.
UnderFire ==
    [w |-> <<Camera, PlayerAt(0, 375, PLAYER_MAX_HP, Running(PLAYER_COOLDOWN_MS, 0)),
             NewScoreText, EnemyAt(0, 395, -1, 350, Running(1500, 0)),
             FriendlyBullet(0, 390), HostileBullet(0, 370)>>,
     score |-> 0, spawn |-> Running(1500, 500), feedback |-> Finished(0), from |-> 3,
     fresh |-> {5, 6}, deltas |-> {20, 250}, keys |-> {{}, {"Up", "Space"}}]

\* The player, hit nine times, is down to its last hit points with one or two
\* bullets of different enemies on it.
LastStand(n) ==
    [w |-> SubSeq(<<Camera, PlayerAt(0, -350, 10, Finished(PLAYER_COOLDOWN_MS)),
                    [NewScoreText EXCEPT !.text = 20],
                    HostileBullet(0, -340), HostileBullet(10, -360)>>, 1, 3 + n),
     score |-> 20, spawn |-> Running(SPAWN_TIMER_MS, 1850),
     feedback |-> Finished(HIT_FEEDBACK_MS), from |-> 1,
     fresh |-> {}, deltas |-> Deltas, keys |-> {{}}]

\* Two enemies overlap, one on its way down, which has fired and moved into its
\* own bullet, and one on its way up; a bullet of the player overlaps both.
Cluster ==
    [w |-> <<Camera, PlayerAt(0, -350, PLAYER_MAX_HP, Finished(PLAYER_COOLDOWN_MS)),
             NewScoreText,
             EnemyAt(0, 300, -1, 350, Running(1500, 0)),
             EnemyAt(20, 300, 1, 350, Running(1500, 700)),
             HostileBullet(0, 275), FriendlyBullet(10, 290)>>,
     score |-> 0, spawn |-> Running(1500, 500), feedback |-> Finished(0), from |-> 3,
     fresh |-> {6}, deltas |-> Deltas, keys |-> {{}}]

\* The same enemies with the player right below them.  In two long frames the
\* player has fired, risen 270 and fired again: shoot ran before move_player in
\* the first frame (200 ms) and after it in the second (250 ms), so the second
\* bullet was spawned 20 above the place the first had reached.
Volley ==
    [w |-> <<Camera, PlayerAt(10, 260, PLAYER_MAX_HP, Running(PLAYER_COOLDOWN_MS, 0)),
             NewScoreText,
             EnemyAt(0, 300, -1, 350, Running(1500, 0)),
             EnemyAt(20, 300, 1, 350, Running(1500, 700)),
             FriendlyBullet(10, 290), HostileBullet(0, 275), FriendlyBullet(10, 310)>>,
     score |-> 0, spawn |-> Running(1500, 500), feedback |-> Finished(0), from |-> 3,
     fresh |-> {7, 8}, deltas |-> Deltas, keys |-> {{}}]

\* Two bullets have left the play area in the frame before (move_bullets ran
\* after remove_out_of_bounds_bullets), a third is inside it; an enemy above its
\* hover band, still rising, is about to fire.
Edge ==
    [w |-> <<Camera, PlayerAt(0, -350, PLAYER_MAX_HP, Finished(PLAYER_COOLDOWN_MS)),
             NewScoreText, FriendlyBullet(0, 405), HostileBullet(100, -405),
             HostileBullet(-200, 100),
             EnemyAt(100, 445, 1, 399, Running(1500, 1450))>>,
     score |-> 0, spawn |-> Running(1500, 500), feedback |-> Finished(0), from |-> 3,
     fresh |-> {}, deltas |-> Deltas, keys |-> {{}, {"Down"}}]

\* The enemy spawn timer is about to fire for the first time.
Cadence ==
    [w |-> <<Camera, PlayerAt(0, -350, PLAYER_MAX_HP, Finished(PLAYER_COOLDOWN_MS)),
             NewScoreText>>,
     score |-> 0, spawn |-> Running(SPAWN_TIMER_MS, 1950), feedback |-> Finished(0),
     from |-> 0, fresh |-> {}, deltas |-> {250}, keys |-> {{}, {"Space"}}]

Snapshots == {UnderFire, LastStand(1), LastStand(2), Cluster, Volley, Edge, Cadence}

InProgress(s) ==
    /\ state = "Running"
    /\ next_state = "None"
    /\ entered = TRUE
    /\ world = s.w
    /\ commands = <<>>
    /\ score = s.score
    /\ enemy_spawn_timer = s.spawn
    /\ hit_feedback_timer = s.feedback
    /\ collision_events = <<>>
    /\ hit_events = <<>>
    /\ game_over_events = <<>>
    /\ time_delta = 0
    /\ overstep = 0
    /\ fixed_left = 0
    /\ input = NoInput
    /\ pc = "First"
    /\ ran = {}
    /\ frame = s.from
    /\ env = [deltas |-> s.deltas, keys |-> s.keys]
    /\ wrapped = FALSE
    /\ panicked = FALSE
    /\ h = [NoHistory EXCEPT !.collisions = s.score \div SCORE_STEP, !.setups = 1,
                             !.fresh = s.fresh,
                             !.since = s.w[2].gun.cooldown_timer.elapsed]

Init ==
    \/ Built /\ frame = 2 /\ env = [deltas |-> Deltas, keys |-> KeySets]
    \/ \E s \in Snapshots : InProgress(s)

Next ==
    \/ \E delta \in env.deltas \cup {0}, keys \in env.keys, click \in BOOLEAN :
          BeginFrame(delta, keys, click)
    \/ restart
    \/ apply_state_transition
    \/ teardown
    \/ setup
    \/ \E checks \in OverflowChecks : check_for_collisions(checks)
    \/ check_for_collisions_player
    \/ FixedUpdateEnd
    \/ move_player
    \/ shoot
    \/ limit_player_bounds
    \/ move_bullets
    \/ remove_out_of_bounds_bullets
    \/ \E d \in SpawnDraws : spawn_enemies(d[1], d[2], d[3], d[4], d[5])
    \/ \E ks \in [Enemies -> RandSamples \X RandSamples] : set_enemies_direction(ks)
    \/ apply_enemy_velocity
    \/ \E ks \in [Enemies -> RandSamples] : enemy_shots(ks)
    \/ increase_score
    \/ \E checks \in OverflowChecks : player_hit(checks)
    \/ player_hit_feedback
    \/ game_over
    \/ restart_button
    \/ UpdateEnd

Spec == Init /\ [][Next]_vars

(***************************************************************************)
(* Properties                                                              *)
(***************************************************************************)
\* The positions in a queue of commands that despawn entity i.
DespawnsOf(i, cmds) == {k \in 1..Len(cmds) : cmds[k].op = "despawn" /\ cmds[k].id = i}

\* The enemies bullet b overlaps, and the first of them a query yields.
Overlapped(b) == {e \in Enemies : BulletOverlaps(b, e, ENEMY_DIMENSIONS)}

FirstOverlapped(b) ==
    Head(SelectSeq(IterOrder("Enemy"), LAMBDA e : e \in Overlapped(b)))

\* The Hostile bullets that overlap a player.
BulletsOnPlayer ==
    {b \in Bullets : /\ world[b].hostility = "Hostile"
                     /\ \E p \in Players : BulletOverlaps(b, p, PLAYER_DIMENSIONS)}

\* A subtraction of damage from hit points that the damage exhausts leaves zero.
Clamped(a) == (U32IsSmall(a.before) /\ a.damage >= a.before[2]) => a.after = U32(0)

\* A subtraction that takes exactly damage from the hit points.
Exact(a) ==
    /\ U32IsSmall(a.before)
    /\ a.before[2] >= a.damage
    /\ a.after = U32(a.before[2] - a.damage)

\* C1: hit points never wrap.  The player's hit points are in 0..100 and every
\* enemy's in 0..10, and a damage d >= h applied to hit points h, by
\* check_for_collisions or by player_hit, leaves exactly 0.
C1_HitPointsNeverWrap ==
    /\ \A p \in Players : U32IsSmall(world[p].hp) /\ world[p].hp[2] <= PLAYER_MAX_HP
    /\ \A e \in Enemies : U32IsSmall(world[e].hp) /\ world[e].hp[2] <= ENEMY_MAX_HP
    /\ h.cfc.ran => \A k \in DOMAIN h.cfc.hits : Clamped(h.cfc.hits[k])
    /\ h.hit.ran => \A k \in DOMAIN h.hit.applied : Clamped(h.hit.applied[k])

\* C2: in one run of check_for_collisions a Friendly bullet that overlaps
\* enemies resolves against the first of them in iteration order and no other:
\* one CollisionEvent for the bullet, one enemy's hit points reduced, one despawn
\* of the bullet.  No bullet is ever despawned twice or by two systems: the
\* despawns of a queue name entities that exist, each bullet once.
C2_OneResolutionPerBullet ==
    /\ h.cfc.ran =>
          /\ Len(collision_events) - h.cfc.base = Cardinality(CollidingBullets)
          /\ \A b \in CollidingBullets :
                /\ Cardinality({k \in DOMAIN h.cfc.hits : h.cfc.hits[k].bullet = b}) = 1
                /\ \A k \in DOMAIN h.cfc.hits :
                      h.cfc.hits[k].bullet = b => h.cfc.hits[k].enemy = FirstOverlapped(b)
                /\ Cardinality(DespawnsOf(b, commands)) = 1
    /\ \A b \in Bullets : Cardinality(DespawnsOf(b, commands)) <= 1
    /\ \A k \in DOMAIN commands :
          commands[k].op = "despawn" =>
             /\ commands[k].id \in DOMAIN world
             /\ world[commands[k].id].kind = commands[k].kind
    /\ "Bullet" \notin h.repeated

\* C2 happens: a run of check_for_collisions has resolved a Friendly bullet that
\* overlaps two enemies.
C2_Witness ==
    /\ h.cfc.ran
    /\ \E b \in CollidingBullets :
          /\ Cardinality(Overlapped(b)) >= 2
          /\ Cardinality(DespawnsOf(b, commands)) = 1

\* C3: hostility filtering.  Every hit check_for_collisions resolves, with its
\* CollisionEvent and its despawn, is a Friendly bullet's; every hit
\* check_for_collisions_player resolves, with its HitEvent (the only thing that
\* reduces the player's hit points) and its despawn, is a Hostile bullet's.
C3_HostilityFiltering ==
    /\ h.cfc.ran =>
          /\ \A k \in DOMAIN h.cfc.hits :
                world[h.cfc.hits[k].bullet].hostility = "Friendly"
          /\ Len(collision_events) - h.cfc.base = Len(h.cfc.hits)
    /\ h.cfcp.ran =>
          /\ \A k \in DOMAIN h.cfcp.hits :
                world[h.cfcp.hits[k].bullet].hostility = "Hostile"
          /\ Len(hit_events) - h.cfcp.base = Len(h.cfcp.hits)
    /\ \A k \in DOMAIN commands :
          (commands[k].op = "despawn" /\ commands[k].kind = "Bullet") =>
             /\ commands[k].by = "check_for_collisions"
                   => world[commands[k].id].hostility = "Friendly"
             /\ commands[k].by = "check_for_collisions_player"
                   => world[commands[k].id].hostility = "Hostile"

\* C3 happens: both collision systems have run over a Hostile bullet that
\* overlaps an enemy and a Friendly bullet that overlaps the player.
C3_Witness ==
    /\ h.cfc.ran
    /\ h.cfcp.ran
    /\ \E b \in Bullets : world[b].hostility = "Hostile" /\ Overlapped(b) # {}
    /\ \E b \in Bullets :
          /\ world[b].hostility = "Friendly"
          /\ \E p \in Players : BulletOverlaps(b, p, PLAYER_DIMENSIONS)

\* C4: when a restart has torn the game down and setup has run, the score is 0,
\* there is no enemy and no bullet, and there is one player with 100 hit points.
C4_RestartLeavesFreshGame ==
    (h.torn /\ h.last = "setup") =>
        /\ score = 0
        /\ Enemies = {}
        /\ Bullets = {}
        /\ Cardinality(Players) = 1
        /\ \A p \in Players : world[p].hp = U32(PLAYER_MAX_HP)

\* C5: there is never more than one player, and once game_over has handled a
\* GameOverEvent no player outlives the commands of that frame, until setup.
C5_AtMostOnePlayer ==
    /\ Cardinality(Players) <= 1
    /\ h.handled => Players \subseteq DespawnTargets(commands)

\* C5 happens: the game is over, the player is gone and the restart control is up.
C5_Witness ==
    /\ h.handled
    /\ h.last = "UpdateEnd"
    /\ Players = {}
    /\ Ids("Button") # {}

\* C6: player_hit emits a GameOverEvent exactly when it brings the player's hit
\* points to 0; game_over then removes the player and the score text and puts up
\* the game-over text and the restart control; and the event is always handled:
\* it is never dropped unread, and the application never stops with it unread.
C6_GameOverHandled ==
    /\ h.hit.ran =>
          h.hit.sent = Cardinality({k \in DOMAIN h.hit.applied :
                                       h.hit.applied[k].after = U32(0)})
    /\ (h.handled /\ commands = <<>>) =>
          /\ Players = {}
          /\ Ids("ScoreText") = {}
          /\ Ids("GameOverText") # {}
          /\ Ids("Button") # {}
    /\ ~h.lost
    /\ ~(panicked /\ game_over_events # <<>>)

\* C7: every bullet-enemy collision gives one CollisionEvent and every
\* CollisionEvent adds 10 to the score once: with the events drained the score is
\* 10 times the collisions since the last teardown, and before that it falls
\* short by 10 per unread event; no event is dropped unread.  An enemy with 10
\* hit points hit for 10 is left with 0 and despawned.
C7_ScoreAccounting ==
    /\ collision_events = <<>> => score = SCORE_STEP * h.collisions
    /\ ~panicked => score + SCORE_STEP * Len(collision_events) = SCORE_STEP * h.collisions
    /\ ~h.lost
    /\ h.cfc.ran =>
          \A k \in DOMAIN h.cfc.hits :
             (h.cfc.hits[k].before = U32(ENEMY_MAX_HP) /\ h.cfc.hits[k].damage = GUN_DAMAGE) =>
                /\ h.cfc.hits[k].after = U32(0)
                /\ h.cfc.hits[k].enemy \in DespawnTargets(commands)

\* C7 happens: two collisions of one pass have been scored.
C7_Witness ==
    /\ h.collisions = 2
    /\ score = 2 * SCORE_STEP
    /\ collision_events = <<>>
    /\ pc = "Update"

\* C8: when spawn_enemies sees the timer fire it spawns one enemy and re-arms
\* the timer with a duration in [1.0, 2.0) s and elapsed 0; the time ticked since
\* the timer was armed is at least the duration it was armed with; the duration
\* is always positive.
C8_SpawnTimerCadence ==
    /\ enemy_spawn_timer.duration > 0
    /\ h.spawn.ran =>
          /\ Cardinality({k \in DOMAIN commands :
                /\ commands[k].op = "spawn"
                /\ commands[k].ent.kind = "Enemy"}) = 1
          /\ enemy_spawn_timer.duration >= 1000
          /\ enemy_spawn_timer.duration < 2000
          /\ enemy_spawn_timer.elapsed = 0
          /\ ~enemy_spawn_timer.finished
          /\ h.spawn.ticked >= h.spawn.armed

\* C9: a run of check_for_collisions_player despawns every Hostile bullet on the
\* player and sends one HitEvent with its damage for it; player_hit takes exactly
\* the damage of every HitEvent from the player's hit points, tints the player
\* with the hit colour and arms HitFeedbackTimer with 0.05 s and elapsed 0.
C9_PlayerHitResolution ==
    /\ h.cfcp.ran =>
          /\ Len(hit_events) - h.cfcp.base = Cardinality(BulletsOnPlayer)
          /\ \A k \in DOMAIN h.cfcp.hits :
                hit_events[h.cfcp.base + k].ev.damage = world[h.cfcp.hits[k].bullet].damage
          /\ \A b \in BulletsOnPlayer :
                /\ Cardinality({k \in DOMAIN h.cfcp.hits : h.cfcp.hits[k].bullet = b}) = 1
                /\ Cardinality(DespawnsOf(b, commands)) = 1
    /\ h.hit.ran =>
          /\ Players # {} => Len(h.hit.applied) = Len(h.hit.read)
          /\ \A k \in DOMAIN h.hit.applied : Exact(h.hit.applied[k])
          /\ h.hit.applied # <<>> =>
                /\ h.hit.colors = {HIT_COLOR}
                /\ h.hit.timer.duration = HIT_FEEDBACK_MS
                /\ h.hit.timer.elapsed = 0

OutsideTransition == pc \in {"First", "FixedUpdate", "Update"}

\* C11: the state machine.  The application starts in Restarting; Restarting is
\* transient: outside the transition itself it always has Running requested,
\* so the next transition leaves it for Running; setup has run exactly once
\* since the last teardown whenever the state is Running and not at all while it
\* is Restarting; Restarting is requested only in Running, by a restart control
\* pressed in that frame, and teardown then runs exactly once before setup.
C11_StateMachine ==
    /\ state \in {"Restarting", "Running"}
    /\ pc = "Startup" => state = "Restarting"
    /\ (state = "Restarting" /\ pc \notin {"Startup", "OnExit", "OnEnter"})
          => next_state = "Running"
    /\ next_state = "Restarting" =>
          /\ state = "Running"
          /\ pc = "Update" => input.click /\ Ids("Button") # {}
    /\ (OutsideTransition /\ state = "Running") =>
          /\ h.setups = 1
          /\ h.teardowns = 0
          /\ Cardinality(Ids("Camera")) = 1
    /\ (OutsideTransition /\ state = "Restarting") =>
          /\ h.setups = 0
          /\ Ids("Camera") = {}
          /\ h.torn => h.teardowns = 1
    /\ h.setups <= 1
    /\ h.teardowns <= 1

\* C11 happens: after a press of the restart control the game has been torn
\* down and set up again.
C11_Witness ==
    /\ h.torn
    /\ state = "Running"
    /\ pc = "Update"
    /\ h.setups = 1

\* C12: at the end of every frame the player's centre is within -275..275 by
\* -375..375, whatever the keys held, the frame's delta and the order of
\* move_player and limit_player_bounds.
C12_PlayerBounds ==
    (pc = "First" /\ h.last = "UpdateEnd") =>
        \A p \in Players :
           /\ world[p].x >= -275
           /\ world[p].x <= 275
           /\ world[p].y >= -375
           /\ world[p].y <= 375

\* C13: once a pass of check_for_collisions has requested the despawn of an
\* enemy whose hit points reached zero, no later bullet of that pass collides
\* with that enemy: none reduces its hit points again, emits a CollisionEvent
\* for it or requests its despawn a second time.
C13_DeadEnemyLeftAlone ==
    h.cfc.ran =>
        \A j, k \in 1..Len(h.cfc.hits) :
            (j < k /\ U32LeZero(h.cfc.hits[j].after)) =>
                h.cfc.hits[k].enemy # h.cfc.hits[j].enemy

\* C14: movement runs before collision detection in every tick, so a bullet is
\* never evaluated by check_for_collisions or check_for_collisions_player before
\* move_bullets has been applied to it at least once after its spawn.
C14_MovedBeforeCollision ==
    (h.cfc.ran \/ h.cfcp.ran) => h.fresh \cap Bullets = {}

\* The Hostile bullets a query yields before bullet b.
HostileBefore(b) == {hb \in Bullets : world[hb].hostility = "Hostile" /\ hb < b}

\* C15: the Hostile-bullet skip of check_for_collisions is per bullet.  A
\* Friendly bullet that overlaps an enemy is resolved against the first enemy it
\* overlaps also when Hostile bullets come before it in the iteration order of
\* the pass, and a Hostile bullet is itself never resolved.
C15_SkipIsPerBullet ==
    h.cfc.ran =>
        /\ \A fb \in CollidingBullets :
              HostileBefore(fb) # {} =>
                 \E k \in DOMAIN h.cfc.hits :
                    /\ h.cfc.hits[k].bullet = fb
                    /\ h.cfc.hits[k].enemy = FirstOverlapped(fb)
        /\ \A hb \in Bullets :
              world[hb].hostility = "Hostile" =>
                 \A k \in DOMAIN h.cfc.hits : h.cfc.hits[k].bullet # hb

\* C15 happens: check_for_collisions has run over a Hostile bullet that overlaps
\* an enemy, followed in the iteration order by a Friendly bullet that overlaps
\* an enemy.
C15_Witness ==
    /\ h.cfc.ran
    /\ \E fb \in CollidingBullets :
          \E hb \in HostileBefore(fb) : Overlapped(hb) # {}

\* The bullets of the player among the commands of the frame.
FriendlySpawns ==
    {k \in DOMAIN commands : /\ commands[k].op = "spawn"
                             /\ commands[k].ent.kind = "Bullet"
                             /\ commands[k].ent.hostility = "Friendly"}

\* C16: the player spawns a bullet in a frame if and only if its cooldown,
\* ticked by the frame's delta, is finished and the fire key is held.  The
\* cooldown is reset only when a bullet is spawned: a finished cooldown stays
\* finished while the key is not held.  At most one player bullet is spawned in
\* a frame, 250 ms of ticked time or more lie between two of them, and the
\* bullet is Friendly, has velocity 1000 and damage 10 and starts 50 above the
\* player.
C16_PlayerCooldown ==
    /\ Cardinality(FriendlySpawns) <= 1
    /\ ~h.shoot.ran => FriendlySpawns = {}
    /\ (h.shoot.ran /\ DOMAIN h.shoot.at = {}) => FriendlySpawns = {}
    /\ h.shoot.ran =>
          \A p \in DOMAIN h.shoot.at :
             LET was == h.shoot.at[p]
                 t == was.gun.cooldown_timer
                 now == world[p].gun.cooldown_timer
                 due == t.finished \/ t.elapsed + time_delta >= t.duration
                 fire == due /\ "Space" \in input.keys
             IN /\ fire <=> FriendlySpawns # {}
                /\ fire =>
                      /\ h.shoot.since + time_delta >= 250
                      /\ now.elapsed = 0 /\ ~now.finished
                      /\ \A k \in FriendlySpawns :
                            commands[k].ent =
                               [kind |-> "Bullet", x |-> was.x, y |-> was.y + 50,
                                velocity |-> 1000, damage |-> 10, hostility |-> "Friendly"]
                /\ (due /\ ~fire) => now.finished /\ now.elapsed = now.duration
                /\ ~due => ~now.finished /\ now.elapsed = t.elapsed + time_delta
                /\ now.duration = 250

\* C16 happens: shoot has spawned a bullet for a player whose cooldown had
\* finished in an earlier frame without the fire key held.
C16_Witness ==
    /\ h.shoot.ran
    /\ FriendlySpawns # {}
    /\ \E p \in DOMAIN h.shoot.at : h.shoot.at[p].gun.cooldown_timer.finished

\* The bullet an enemy fires from where e is.
FiredBy(e) ==
    [kind |-> "Bullet", x |-> e.x, y |-> e.y - 50, velocity |-> -500,
     damage |-> e.gun.damage, hostility |-> "Hostile"]

\* The bullets of enemies among the commands of the frame.
HostileSpawns ==
    {k \in DOMAIN commands : /\ commands[k].op = "spawn"
                             /\ commands[k].ent.kind = "Bullet"
                             /\ commands[k].ent.hostility = "Hostile"}

\* C17: an enemy fires one bullet each time its cooldown completes, and only
\* then; the bullet is Hostile, has velocity -500 and the gun's damage and starts
\* 50 below the enemy; the cooldown is then reset with a new duration of at
\* least 1 s and less than 2 s.  Every gun cooldown has a positive duration.
C17_EnemyCadence ==
    /\ ~h.shots.ran => HostileSpawns = {}
    /\ h.shots.ran =>
          LET completes(e) ==
                 LET t == h.shots.at[e].gun.cooldown_timer
                 IN ~t.finished /\ t.elapsed + time_delta >= t.duration
          IN /\ Cardinality(HostileSpawns)
                   = Cardinality({e \in DOMAIN h.shots.at : completes(e)})
             /\ \A e \in DOMAIN h.shots.at :
                   LET t == h.shots.at[e].gun.cooldown_timer
                       now == world[e].gun.cooldown_timer
                   IN /\ completes(e) =>
                            /\ \E k \in HostileSpawns : commands[k].ent = FiredBy(h.shots.at[e])
                            /\ now.elapsed = 0 /\ ~now.finished
                            /\ now.duration >= 1000
                            /\ now.duration < 2000
                      /\ ~completes(e) =>
                            /\ now.duration = t.duration
                            /\ now.elapsed = t.elapsed + time_delta
                            /\ ~now.finished
    /\ \A i \in Players \cup Enemies : world[i].gun.cooldown_timer.duration > 0

\* C18: while a living player has the hit colour, HitFeedbackTimer is armed
\* with 50 ms and has not finished, and less than 50 ms have been ticked by
\* player_hit_feedback since the last hit: the colour is restored by the run of
\* player_hit_feedback that completes the 50 ms, whichever of player_hit and
\* player_hit_feedback runs first in a frame.
C18_HitFlashEnds ==
    \A p \in Players :
        world[p].color = "RED" =>
            /\ ~hit_feedback_timer.finished
            /\ hit_feedback_timer.duration = 50
            /\ hit_feedback_timer.elapsed < 50
            /\ h.flash < 50
            /\ h.flash = hit_feedback_timer.elapsed

\* C18 happens: a living player starts a frame with the hit colour, 20 ms into
\* the flash, no despawn pending.
C18_Witness ==
    /\ pc = "First"
    /\ h.flash = 20
    /\ \E p \in Players : world[p].color = "RED" /\ ~U32LeZero(world[p].hp)

\* A step of the Update system sys.
StepOf(sys) == sys \notin ran /\ ran' = ran \cup {sys}

\* The direction set_enemies_direction gives enemy was, for some sampled part
\* below of the lower margin and some sampled part above of the upper margin.
HoverRule(was, direction) ==
    \E below \in 0..(was.hover.lower_limit_margin - 1) :
       \E above \in 0..(was.hover.upper_limit_margin - 1) :
          LET lower == was.hover.lower_limit_base - below
              upper == was.hover.upper_limit_base + above
          IN /\ was.y < lower => direction = 1
             /\ (was.y >= lower /\ was.y > upper) => direction = -1
             /\ (was.y >= lower /\ was.y <= upper) => direction = was.direction

\* C19: set_enemies_direction turns an enemy up when its y is below its lower
\* base minus a sampled part of the lower margin, down when its y is above its
\* upper base plus a sampled part of the upper margin, and leaves the direction
\* as it is otherwise; it changes nothing else of the enemy.
\* apply_enemy_velocity moves the enemy by its direction times 100 units per
\* second times the delta.  In no step does an enemy that has a direction up or
\* down get the direction none.
C19_HoverStep ==
    /\ StepOf("set_enemies_direction") =>
          \A e \in Enemies :
             /\ HoverRule(world[e], world'[e].direction)
             /\ world'[e] = [world[e] EXCEPT !.direction = world'[e].direction]
    /\ StepOf("apply_enemy_velocity") =>
          \A e \in Enemies :
             world'[e] = [world[e] EXCEPT
                            !.y = @ + world[e].direction * ((100 * time_delta) \div 1000)]
    /\ \A e \in Enemies :
          (e \in DOMAIN world' /\ world'[e].kind = "Enemy" /\ world[e].direction # 0)
              => world'[e].direction \in {-1, 1}

C19_HoverHysteresis == [][C19_HoverStep]_vars

\* C19 happens: a rising enemy that started the frame above its upper base is
\* still rising after set_enemies_direction, the sampled bound being higher
\* still, and apply_enemy_velocity has moved it up.
C19_Witness ==
    /\ pc = "Update"
    /\ {"set_enemies_direction", "apply_enemy_velocity"} \subseteq ran
    /\ time_delta > 0
    /\ \E e \in Enemies :
          /\ e \in DOMAIN h.start
          /\ h.start[e].kind = "Enemy"
          /\ h.start[e].direction = 1
          /\ h.start[e].y > h.start[e].hover.upper_limit_base
          /\ world[e].direction = 1
          /\ world[e].y > h.start[e].y

\* The spawns of entities of a kind among the commands of the frame.
SpawnsOf(kind) ==
    {k \in DOMAIN commands : commands[k].op = "spawn" /\ commands[k].ent.kind = kind}

\* C20: there is never more than one game-over display and never more than one
\* restart control, in the world and among the commands still to be applied,
\* also when two Hostile bullets hit the player in the frame its hit points
\* reach zero and when a hit arrives while the player's despawn is pending.
C20_OneGameOverDisplay ==
    /\ Cardinality(Ids("GameOverText")) + Cardinality(SpawnsOf("GameOverText")) <= 1
    /\ Cardinality(Ids("Button")) + Cardinality(SpawnsOf("Button")) <= 1
    /\ Len(game_over_events) <= 1

\* C20 happens: the display and the restart control are up after a frame in
\* which player_hit applied two hits to a player with 10 hit points.
C20_Witness ==
    /\ wrapped
    /\ h.handled
    /\ Cardinality(Ids("GameOverText")) = 1
    /\ Cardinality(Ids("Button")) = 1

\* The way bullet b has left to the bound it flies towards: negative once it is
\* beyond it.
Remaining(b) == IF b.velocity > 0 THEN 400 - b.y ELSE b.y + 400

\* The entities the commands spawn.
Spawned == {commands[k].ent : k \in {j \in DOMAIN commands : commands[j].op = "spawn"}}

\* In every state a bullet has velocity 1000 or -500 and is at most 575 beyond
\* the bound it flies towards: a player that two long frames have carried from
\* 375 to 675 before the clamp fires a bullet at 725, which the next frame
\* moves by 250 before it is removed.
C21_BulletsInReach ==
    \A b \in Bullets :
       /\ world[b].velocity \in {1000, -500}
       /\ Remaining(world[b]) >= -575

\* In every step: move_bullets brings each bullet nearer to its bound by at
\* least half a unit per millisecond of delta and changes nothing else of it;
\* remove_out_of_bounds_bullets requests the despawn of every bullet beyond
\* its bound; both have run when the commands of Update are applied, whatever
\* the state of the application; a despawn requested is carried out; no other
\* step changes a bullet that stays.
C21_BulletStep ==
    /\ StepOf("move_bullets") =>
          \A b \in Bullets :
             /\ world'[b] = [world[b] EXCEPT !.y = world'[b].y]
             /\ Remaining(world'[b]) <= Remaining(world[b]) - time_delta \div 2
             /\ time_delta > 0 => Remaining(world'[b]) < Remaining(world[b])
    /\ StepOf("remove_out_of_bounds_bullets") =>
          \A b \in Bullets : Remaining(world[b]) < 0 => b \in DespawnTargets(commands')
    /\ (pc = "Update" /\ pc' = "First") =>
          {"move_bullets", "remove_out_of_bounds_bullets"} \subseteq ran
    /\ (pc \in {"Update", "FixedUpdate"} /\ commands' = <<>>) =>
          \A b \in Bullets \cap DespawnTargets(commands) :
             b \notin DOMAIN world' \/ world'[b] \in Spawned
    /\ ~StepOf("move_bullets") =>
          \A b \in Bullets :
             \/ b \notin DOMAIN world'
             \/ world'[b] = world[b]
             \/ b \in DespawnTargets(commands) /\ world'[b] \in Spawned

\* C21: every bullet is despawned in the end.  A bullet never changes its
\* velocity, 1000 or -500; each frame of positive delta takes it nearer to the
\* bound it flies towards; once beyond it, it is despawned by the first run of
\* remove_out_of_bounds_bullets, which every frame has, unless a collision or
\* teardown despawns it before.  So no bullet lives longer than the frames it
\* takes to cross the play area, and none is ever far beyond its bound.
C21_BulletsLeave == []C21_BulletsInReach /\ [][C21_BulletStep]_vars

\* C21 happens: a bullet that started the frame inside the play area has been
\* moved beyond its bound by move_bullets, and remove_out_of_bounds_bullets,
\* which ran after it, has requested its despawn.
C21_Witness ==
    /\ pc = "Update"
    /\ time_delta > 0
    /\ \E b \in Bullets :
          /\ b \in DOMAIN h.start
          /\ h.start[b] = [world[b] EXCEPT !.y = h.start[b].y]
          /\ Remaining(h.start[b]) >= 0
          /\ Remaining(world[b]) < 0
          /\ \E k \in DespawnsOf(b, commands) :
                commands[k].by = "remove_out_of_bounds_bullets"

====
